---- MODULE Spec2Model ----
(***************************************************************************)
(* Model of the QA automation plugin: the test dispatcher (QACore) of      *)
(* src/qa_plugin/core.py, the result store (QADatabase) of                 *)
(* src/qa_plugin/database.py, the report writers (ReportManager) of        *)
(* src/qa_plugin/reports.py and the run page of the dashboard, src/app.py. *)
(*                                                                         *)
(* Encoding.  Python None is the string None for name-like values and the  *)
(* one-token text Null for message-like values.  A message is a sequence   *)
(* of tokens, so that f-string formatting is concatenation and "contains"  *)
(* is membership of a token.  A result dict is a record over the keys      *)
(* type, status, name, url, error, output; a key the dict does not have    *)
(* holds Absent (AbsentT for the message-valued keys).                     *)
(***************************************************************************)
EXTENDS Integers, Sequences, FiniteSets, TLC

\* ---------------------------------------------------------------- bounds
MaxRows == 2     \* rows in the store before a direct insert
MaxBacklog == 1  \* rows in the store before a run_tests call
MaxTime == 2     \* days the clock of the store advances
MaxUrls == 2     \* URLs in config['e2e_tests']
MaxFaults == 2   \* insert attempts of one call that can fail
MaxPlugins == 3  \* entries in config['plugins']
MaxClock == 3    \* ticks the clock of the report writers advances
MaxReports == 2  \* report files on disk before a writer is called directly
MaxSelected == 2 \* test files selected for one dashboard run

\* ------------------------------------------------------------- encodings
None == "None"
Absent == "<absent>"
Null == <<"NULL">>
AbsentT == <<"<absent>">>

Truthy(x) == x # None /\ x # ""

\* "a or b" that always takes the default b.
Or_default(a, b) == b

Or(a, b) == IF Truthy(a) THEN a ELSE b

Get(d, k, default) == IF d[k] = Absent THEN default ELSE d[k]

Dict(type, status, name, url, error, output) ==
  [type |-> type, status |-> status, name |-> name, url |-> url,
   error |-> error, output |-> output]

Contains(text, tok) == \E i \in 1..Len(text) : text[i] = tok

\* ------------------------------------------------- environment outcomes
StoreError == <<"database is locked">>
PytestError == <<"pytest internal error">>
LaunchError == <<"browser executable missing">>
GotoError == <<"net::ERR_NAME_NOT_RESOLVED">>
CloseError == <<"browser has been closed">>
PluginError == <<"plugin crashed">>
NoGetError == <<"'NoneType' object has no attribute 'get'">>
TestOutput == <<"pytest stdout">>

ExitCodes == {0, 1, 5}
KnownUrls == <<"https://good.example", "https://bad.example", "https://third.example">>
TestTypes == {"unit", "e2e", "sample", "custom", "all"}
TestFiles == {None, "test_unit.py"}
TestNames == {None, "smoke"}
PluginStatuses == {"pass", "fail", "skipped", Absent}

\* ------------------------------------------------------------------ state
VARIABLES
  rows,       \* the test_results table, in insertion order
  now,        \* the clock read by datetime.now, in days
  files,      \* the report files that exist on disk
  plugins,    \* QACore.plugins: the names of the loaded plugins
  e2e_tests,  \* config['e2e_tests']: the configured URL list
  ret,        \* the last operation and what it returned to its caller
  session_results,  \* st.session_state["results"]: the list the dashboard kept
  clock,      \* the clock as the report writers read it, in sub-second ticks
  columns,    \* the columns of the test_results table; {} when there is no table
  test_running  \* st.session_state["test_running"] of the dashboard

vars ==
  <<rows, now, files, plugins, e2e_tests, ret, session_results, clock, columns,
    test_running>>

Idle == [op |-> "none"]

\* The columns _init_db requires of the test_results table.
required_columns ==
  {"id", "timestamp", "test_type", "test_name", "status", "duration", "error_message",
   "report_path", "is_cloud"}

\* ---------------------------------------------------------- result store
RECURSIVE MaxId(_)
MaxId(rs) ==
  IF rs = <<>> THEN 0
  ELSE LET m == MaxId(Tail(rs)) IN IF Head(rs).id > m THEN Head(rs).id ELSE m

TestResult(id, timestamp, test_type, test_name, status, duration, error_message, report_path) ==
  [id |-> id, timestamp |-> timestamp, test_type |-> test_type,
   test_name |-> test_name, status |-> status, duration |-> duration,
   error_message |-> error_message, report_path |-> report_path]

\* A call context c carries the table, the clock, the insert attempts that
\* the store will fail (faults), the number of attempts made so far, the
\* backend calls made (trace), the pending exception (exc), the value
\* returned (val), the number of store sessions that are open (open) and
\* whether a backend call was made while a session was open (held).
Context(rs, t, faults) ==
  [rows |-> rs, now |-> t, faults |-> faults, attempts |-> 0, storeErrors |-> 0,
   trace |-> <<>>, exc |-> Null, val |-> <<>>, open |-> 0, held |-> FALSE]

\* session = self.Session()
Session(c) == [c EXCEPT !.open = @ + 1]

\* A close that is skipped when the operation raises.
close_unless_raised(c) ==
  IF c.exc # Null THEN c ELSE [c EXCEPT !.open = @ - 1]

\* finally: session.close()
close(c) ==
  [c EXCEPT !.open = @ - 1]

\* add_result that overwrites the stored row of the same test instead of
\* inserting a new one.
add_result_upsert(c, test_type, test_name, status, duration, error_message, report_path) ==
  LET k == c.attempts + 1
      same == {i \in DOMAIN c.rows : c.rows[i].test_name = test_name}
      result == TestResult(MaxId(c.rows) + 1, c.now, test_type, test_name,
                           status, duration, error_message, report_path)
      session == Session(c)
  IN close(
     IF k \in c.faults
       THEN [session EXCEPT !.attempts = k, !.storeErrors = @ + 1, !.exc = StoreError]
     ELSE IF same = {}
       THEN [session EXCEPT !.attempts = k, !.rows = Append(@, result), !.exc = Null]
     ELSE [session EXCEPT !.attempts = k, !.exc = Null,
                    !.rows = [i \in DOMAIN @ |->
                                IF i \in same
                                  THEN TestResult(@[i].id, c.now, test_type, test_name,
                                                  status, duration, error_message, report_path)
                                  ELSE @[i]]])

add_result(c, test_type, test_name, status, duration, error_message, report_path) ==
  LET k == c.attempts + 1
      result == TestResult(MaxId(c.rows) + 1, c.now, test_type, test_name,
                           status, duration, error_message, report_path)
      session == Session(c)
  IN close(
     IF k \in c.faults
       THEN [session EXCEPT !.attempts = k, !.storeErrors = @ + 1, !.exc = StoreError]
       ELSE [session EXCEPT !.attempts = k, !.rows = Append(@, result), !.exc = Null])

ExitName(code) == IF code = 0 THEN "exit 0" ELSE IF code = 1 THEN "exit 1" ELSE "exit 5"

\* clear_results whose failed commit is not rolled back.
clear_results_without_rollback(c) ==
  LET session == Session(c)
  IN close(IF 1 \in c.faults
             THEN [session EXCEPT !.rows = <<>>, !.storeErrors = @ + 1, !.exc = StoreError]
             ELSE [session EXCEPT !.rows = <<>>, !.exc = Null])

clear_results(c) ==
  LET session == Session(c)
  IN close(IF 1 \in c.faults
             THEN [session EXCEPT !.storeErrors = @ + 1, !.exc = StoreError]
             ELSE [session EXCEPT !.rows = <<>>, !.exc = Null])

Count(rs, status) == Cardinality({i \in DOMAIN rs : rs[i].status = status})

\* get_statistics without its guard against an empty table.
get_statistics_unguarded(rs) ==
  LET total == Len(rs)
      passed == Count(rs, "passed")
      failed == Count(rs, "failed")
      skipped == Count(rs, "skipped")
  IN [total |-> total, passed |-> passed, failed |-> failed, skipped |-> skipped,
      pass_rate |-> [num |-> passed * 100, den |-> total]]

\* passed / total * 100 is kept as the fraction num / den.
get_statistics(rs) ==
  LET total == Len(rs)
      passed == Count(rs, "passed")
      failed == Count(rs, "failed")
      skipped == Count(rs, "skipped")
  IN [total |-> total, passed |-> passed, failed |-> failed, skipped |-> skipped,
      pass_rate |-> IF total > 0 THEN [num |-> passed * 100, den |-> total]
                    ELSE [num |-> 0, den |-> 1]]

RECURSIVE RemoveReports(_, _, _, _)
\* The loop of cleanup_old_results over old_results from position i on: fs is
\* the files on disk; the removal of a file in stuck raises and is logged.
RemoveReports(old_results, i, fs, stuck) ==
  IF i > Len(old_results) THEN [files |-> fs, failed |-> {}]
  ELSE LET report_path == old_results[i].report_path
       IN IF Truthy(report_path) /\ report_path \in fs
            THEN IF report_path \in stuck
                   THEN LET rest == RemoveReports(old_results, i + 1, fs, stuck)
                        IN [rest EXCEPT !.failed = @ \cup {report_path}]
                   ELSE RemoveReports(old_results, i + 1, fs \ {report_path}, stuck)
            ELSE RemoveReports(old_results, i + 1, fs, stuck)

\* cleanup_old_results deleting the rows but leaving their report files.
cleanup_old_results_keeping_files(rs, fs, t, days, fault, stuck) ==
  LET cutoff_date == t - days
      old_results == SelectSeq(rs, LAMBDA r : r.timestamp < cutoff_date)
      kept == SelectSeq(rs, LAMBDA r : ~(r.timestamp < cutoff_date))
  IN IF fault # "none"
       THEN [rows |-> rs, files |-> fs, raised |-> TRUE, deleted |-> <<>>, failed |-> {}]
       ELSE [rows |-> kept, files |-> fs, raised |-> FALSE, deleted |-> old_results,
             failed |-> {}]

\* fault: where the session fails ("query", "commit") or "none".
cleanup_old_results(rs, fs, t, days, fault, stuck) ==
  LET cutoff_date == t - days
      old_results == SelectSeq(rs, LAMBDA r : r.timestamp < cutoff_date)
      kept == SelectSeq(rs, LAMBDA r : ~(r.timestamp < cutoff_date))
      removed == RemoveReports(old_results, 1, fs, stuck)
  IN IF fault = "query"
       THEN [rows |-> rs, files |-> fs, raised |-> TRUE, deleted |-> <<>>, failed |-> {}]
     ELSE IF fault = "commit"
       THEN [rows |-> rs, files |-> removed.files, raised |-> TRUE, deleted |-> <<>>,
             failed |-> removed.failed]
     ELSE [rows |-> kept, files |-> removed.files, raised |-> FALSE,
           deleted |-> old_results, failed |-> removed.failed]

Return(c, results) == [c EXCEPT !.exc = Null, !.val = results]

\* The session of an operation that only reads: session = self.Session(),
\* the query returning value or raising (fault), finally session.close().
Query(fault, value) ==
  LET session == Session(Context(<<>>, 0, {}))
  IN close(IF fault THEN [session EXCEPT !.exc = StoreError] ELSE Return(session, value))

\* A backend call is made.
Called(c, what) == [c EXCEPT !.trace = Append(@, what), !.held = @ \/ c.open > 0]

\* ------------------------------------------------------------- dispatcher
\* run_pytest that takes exit code 5 (no tests collected) for a pass.
run_pytest_no_tests_pass(c, test_file, is_sample, env) ==
  LET test_dir == IF is_sample THEN "tests/sample" ELSE "tests/unit"
      test_path == <<test_dir, "/", test_file>>
      name == Or(test_file, "all_unit_tests")
      Handler(cx, e) ==
        LET c2 == add_result(cx, "unit", name, "fail", 0, e, None)
        IN IF c2.exc # Null THEN c2
           ELSE Return(c2, <<Dict("unit", "fail", name, Absent, e, AbsentT)>>)
  IN IF Truthy(test_file) /\ ~env.file_exists
       THEN LET c1 == add_result(Called(c, <<"os.path.exists", test_file, "False">>),
                                 "unit", test_file, "fail", 0, Null, None)
            IN IF c1.exc # Null THEN c1
               ELSE Return(c1, <<Dict("unit", "fail", test_file, Absent,
                                      <<"Test file ", "not found", ": ">> \o test_path,
                                      AbsentT)>>)
       ELSE LET c0 == Called(c, <<"pytest.main", IF Truthy(test_file) THEN test_file ELSE test_dir,
                             IF env.pytest_raises THEN "raise" ELSE ExitName(env.exit_code)>>)
            IN IF env.pytest_raises
                 THEN Handler(c0, PytestError)
                 ELSE LET status == IF env.exit_code \in {0, 5} THEN "pass" ELSE "fail"
                          c1 == add_result(c0, "unit", name, status, 0,
                                           IF status = "pass" THEN Null ELSE TestOutput, None)
                      IN IF c1.exc # Null THEN Handler(c1, c1.exc)
                         ELSE Return(c1, <<Dict("unit", status, name, Absent, AbsentT, TestOutput)>>)

run_pytest(c, test_file, is_sample, env) ==
  LET test_dir == IF is_sample THEN "tests/sample" ELSE "tests/unit"
      test_path == <<test_dir, "/", test_file>>
      name == Or(test_file, "all_unit_tests")
      Handler(cx, e) ==
        LET c2 == add_result(cx, "unit", name, "fail", 0, e, None)
        IN IF c2.exc # Null THEN c2
           ELSE Return(c2, <<Dict("unit", "fail", name, Absent, e, AbsentT)>>)
  IN IF Truthy(test_file) /\ ~env.file_exists
       THEN LET c1 == add_result(Called(c, <<"os.path.exists", test_file, "False">>),
                                 "unit", test_file, "fail", 0, Null, None)
            IN IF c1.exc # Null THEN c1
               ELSE Return(c1, <<Dict("unit", "fail", test_file, Absent,
                                      <<"Test file ", "not found", ": ">> \o test_path,
                                      AbsentT)>>)
       ELSE LET c0 == Called(c, <<"pytest.main", IF Truthy(test_file) THEN test_file ELSE test_dir,
                             IF env.pytest_raises THEN "raise" ELSE ExitName(env.exit_code)>>)
            IN IF env.pytest_raises
                 THEN Handler(c0, PytestError)
                 ELSE LET status == IF env.exit_code = 0 THEN "pass" ELSE "fail"
                          c1 == add_result(c0, "unit", name, status, 0,
                                           IF status = "pass" THEN Null ELSE TestOutput, None)
                      IN IF c1.exc # Null THEN Handler(c1, c1.exc)
                         ELSE Return(c1, <<Dict("unit", status, name, Absent, AbsentT, TestOutput)>>)

RECURSIVE VisitUrls(_, _, _, _, _)
\* The for loop of run_playwright from position i on; results so far in res.
VisitUrls(c, urls_to_test, i, res, env) ==
  IF i > Len(urls_to_test) THEN Return(c, res)
  ELSE LET test_url == urls_to_test[i]
           c0 == Called(c, <<"page.goto", test_url, IF env.goto_ok[i] THEN "ok" ELSE "raise">>)
           Failed(cx, e) ==
             LET c2 == add_result(cx, "e2e", test_url, "fail", 0, Null, None)
             IN IF c2.exc # Null THEN c2
                ELSE VisitUrls(c2, urls_to_test, i + 1,
                               Append(res, Dict("e2e", "fail", Absent, test_url, e, AbsentT)), env)
       IN IF ~env.goto_ok[i]
            THEN Failed(c0, GotoError)
            ELSE LET c1 == add_result(c0, "e2e", test_url, "pass", 0, Null, None)
                 IN IF c1.exc # Null THEN Failed(c1, c1.exc)
                    ELSE VisitUrls(c1, urls_to_test, i + 1,
                                   Append(res, Dict("e2e", "pass", Absent, test_url, AbsentT, AbsentT)), env)

run_playwright(c, url, urls, env) ==
  LET Handler(cx, e) ==
        LET c2 == add_result(cx, "e2e", Or(url, "all_urls"), "fail", 0, Null, None)
        IN IF c2.exc # Null THEN c2
           ELSE Return(c2, <<Dict("e2e", "fail", Absent, Or(url, "all_urls"),
                                  <<"Playwright error: ">> \o e, AbsentT)>>)
      c0 == Called(c, <<"chromium.launch", None, IF env.launch_ok THEN "ok" ELSE "raise">>)
      urls_to_test == IF Truthy(url) THEN <<url>> ELSE urls
      Closed(c2) == IF ~env.close_ok THEN Handler(c2, CloseError) ELSE c2
      Visited(c1) ==
        IF c1.exc # Null THEN Handler(c1, c1.exc)
        ELSE Closed(Called(c1, <<"browser.close", None,
                                 IF env.close_ok THEN "ok" ELSE "raise">>))
  IN IF ~env.launch_ok THEN Handler(c0, LaunchError)
     ELSE Visited(VisitUrls(c0, urls_to_test, 1, <<>>, env))

run_tests(c, loaded, urls, test_type, test_file, test_name, url, env) ==
  LET Handler(cx, e) ==
        LET label == Or(test_file, Or(test_name, test_type))
            c2 == add_result(cx, test_type, label, "fail", 0, Null, None)
        IN IF c2.exc # Null THEN c2
           ELSE Return(c2, <<Dict(test_type, "fail", label, Absent, e, AbsentT)>>)
      Try ==
        IF test_type = "unit" THEN run_pytest(c, test_file, FALSE, env)
        ELSE IF test_type = "e2e" THEN run_playwright(c, url, urls, env)
        ELSE IF test_type = "sample" THEN
          IF Truthy(test_file) THEN run_pytest(c, test_file, TRUE, env)
          ELSE LET c1 == add_result(c, "sample", Or(test_name, "sample_test"), "pass", 0, Null, None)
               IN IF c1.exc # Null THEN c1
                  ELSE Return(c1, <<Dict("sample", "pass", Or(test_name, "sample_test"),
                                         Absent, AbsentT, AbsentT)>>)
        ELSE IF test_type = "custom" THEN
          IF "custom" \in loaded THEN
            LET c0 == Called(c, <<"plugin.run", "custom",
                              IF env.plugin = "dict" THEN env.plugin_status ELSE env.plugin>>)
            IN IF env.plugin = "raise" THEN [c0 EXCEPT !.exc = PluginError]
               ELSE IF env.plugin = "none" THEN [c0 EXCEPT !.exc = NoGetError]
               ELSE LET result == Dict("custom", env.plugin_status, "custom_test",
                                       Absent, AbsentT, AbsentT)
                        c1 == add_result(c0, "custom", Or(test_name, "custom_test"),
                                         Get(result, "status", "fail"), 0, Null, None)
                    IN IF c1.exc # Null THEN c1 ELSE Return(c1, <<result>>)
          ELSE LET c1 == add_result(c, "custom", Or(test_name, "custom_test"), "fail", 0, Null, None)
               IN IF c1.exc # Null THEN c1
                  ELSE Return(c1, <<Dict("custom", "fail", Or(test_name, "custom_test"), Absent,
                                         <<"No custom plugin configured">>, AbsentT)>>)
        ELSE Return(c, <<>>)
      Except(t) == IF t.exc # Null THEN Handler(t, t.exc) ELSE t
  IN Except(Try)

\* ------------------------------------------------- inputs of one call
DefaultEnv ==
  [file_exists |-> TRUE, pytest_raises |-> FALSE, exit_code |-> 0,
   launch_ok |-> TRUE, goto_ok |-> [i \in 1..MaxUrls |-> TRUE], close_ok |-> TRUE,
   plugin |-> "dict", plugin_status |-> "pass"]

PytestEnvs ==
  {[DefaultEnv EXCEPT !.pytest_raises = TRUE]}
    \cup {[DefaultEnv EXCEPT !.exit_code = x] : x \in ExitCodes}

\* The outcomes of the backends that a call with these arguments can meet:
\* only the backends the call reaches are varied.
Envs(test_type, test_file, url, loaded, urls) ==
  IF test_type = "unit" \/ (test_type = "sample" /\ Truthy(test_file)) THEN
    PytestEnvs \cup (IF Truthy(test_file) THEN {[DefaultEnv EXCEPT !.file_exists = FALSE]} ELSE {})
  ELSE IF test_type = "e2e" THEN
    LET n == IF Truthy(url) THEN 1 ELSE Len(urls)
    IN {[DefaultEnv EXCEPT !.launch_ok = FALSE]}
         \cup {[DefaultEnv EXCEPT !.goto_ok = [i \in 1..MaxUrls |-> i > n \/ i \in ok],
                                  !.close_ok = k] :
                 ok \in SUBSET (1..n), k \in BOOLEAN}
  ELSE IF test_type = "custom" /\ "custom" \in loaded THEN
    {[DefaultEnv EXCEPT !.plugin = "raise"], [DefaultEnv EXCEPT !.plugin = "none"]}
      \cup {[DefaultEnv EXCEPT !.plugin_status = s] : s \in PluginStatuses}
  ELSE {DefaultEnv}

\* The arguments of a call.  run_tests reads url only for e2e and test_file
\* only for unit and sample (core.py:273-278); the other calls leave them out.
Args ==
  {[test_type |-> tt, test_file |-> tf, test_name |-> tn, url |-> u] :
     tt \in TestTypes, tf \in TestFiles, tn \in TestNames, u \in {None, KnownUrls[1]}}

CallArgs ==
  {a \in Args : /\ (a.url # None => a.test_type = "e2e")
                /\ (a.test_file # None => a.test_type \in {"unit", "sample"})}

\* ----------------------------------------------------------------- actions
\* The store exists; no dispatcher has been constructed yet.
Init ==
  /\ rows = <<>>
  /\ now = 0
  /\ files = {}
  /\ plugins = {}
  /\ e2e_tests = <<>>
  /\ ret = Idle
  /\ session_results = <<>>
  /\ clock = 0
  /\ columns = required_columns
  /\ test_running = FALSE

\* The configurations QACore.__init__ can resolve: the "custom" plugin is
\* loaded or not, and e2e_tests lists the first n known URLs.
LoadedPlugins == {{}, {"custom"}}
UrlLists == {SubSeq(KnownUrls, 1, n) : n \in 0..MaxUrls}

\* The configurations under which a call is made.  run_tests reads plugins
\* only for custom (core.py:284) and e2e_tests only for e2e without url
\* (core.py:367); the other calls are made under the empty configuration.
Configs(a) ==
  {[plugins |-> loaded, e2e_tests |-> urls] :
     loaded \in (IF a.test_type = "custom" THEN LoadedPlugins ELSE {{}}),
     urls \in (IF a.test_type = "e2e" /\ ~Truthy(a.url) THEN UrlLists ELSE {<<>>})}

\* One invocation as in cli.run: QACore is constructed from the current
\* configuration and run_tests is called with any arguments, from call to
\* return or raise.
RunTests ==
  /\ ret = Idle
  /\ Len(rows) < MaxBacklog
  /\ \E a \in CallArgs, faults \in SUBSET (1..MaxFaults) :
       \E config \in Configs(a) :
         \E env \in Envs(a.test_type, a.test_file, a.url, config.plugins, config.e2e_tests) :
           LET c == run_tests(Context(rows, now, faults), config.plugins, config.e2e_tests,
                              a.test_type, a.test_file, a.test_name, a.url, env)
           IN /\ plugins' = config.plugins
              /\ e2e_tests' = config.e2e_tests
              /\ rows' = c.rows
              /\ ret' = [op |-> "run_tests", test_type |-> a.test_type,
                         test_file |-> a.test_file, test_name |-> a.test_name,
                         url |-> a.url,
                         raised |-> c.exc # Null, exc |-> c.exc,
                         results |-> IF c.exc # Null THEN <<>> ELSE c.val,
                         before |-> Len(rows), storeErrors |-> c.storeErrors,
                         trace |-> c.trace, sessions |-> c.open, held |-> c.held]
  /\ UNCHANGED <<now, files, session_results, clock, columns, test_running>>

\* The caller takes the returned value (or the exception) and ends; the
\* dispatcher it constructed goes with it.
ReturnToCaller ==
  /\ ret # Idle
  /\ ret' = Idle
  /\ plugins' = {}
  /\ e2e_tests' = <<>>
  /\ UNCHANGED <<rows, now, files, session_results, clock, columns, test_running>>

\* QADatabase.clear_results.
ClearResults ==
  /\ ret = Idle
  /\ \E faults \in SUBSET {1} :
       LET c == clear_results(Context(rows, now, faults))
       IN /\ rows' = c.rows
          /\ ret' = [op |-> "clear_results", raised |-> c.exc # Null, before |-> rows,
                     sessions |-> c.open, held |-> c.held]
  /\ UNCHANGED <<now, files, plugins, e2e_tests, session_results, clock, columns, test_running>>

\* QADatabase.get_statistics.
GetStatistics ==
  /\ ret = Idle
  /\ \E fault \in BOOLEAN :
       LET c == Query(fault, get_statistics(rows))
       IN ret' = IF c.exc # Null
                   THEN [op |-> "get_statistics", raised |-> TRUE,
                         sessions |-> c.open, held |-> c.held]
                   ELSE [op |-> "get_statistics", raised |-> FALSE, value |-> c.val,
                         sessions |-> c.open, held |-> c.held]
  /\ UNCHANGED <<rows, now, files, plugins, e2e_tests, session_results, clock, columns, test_running>>

\* QADatabase.add_result called directly, with any column values.
StoreStatuses == {"pass", "passed", "failed"}
ReportPaths == {"reports/a.json", "reports/b.json"}

\* The status and report_path a direct insert carries: get_statistics reads
\* the status only and cleanup_old_results the report_path only, so a row
\* varies one of them.
StoredColumns ==
  {[status |-> status, report_path |-> None] : status \in StoreStatuses}
    \cup {[status |-> "passed", report_path |-> report_path] : report_path \in ReportPaths}

AddResult ==
  /\ ret = Idle
  /\ Len(rows) < MaxRows
  /\ \E stored \in StoredColumns, faults \in SUBSET {1} :
       LET c == add_result(Context(rows, now, faults), "unit", "test_unit.py",
                           stored.status, 0, Null, stored.report_path)
       IN /\ rows' = c.rows
          /\ ret' = [op |-> "add_result", raised |-> c.exc # Null, before |-> Len(rows),
                     sessions |-> c.open, held |-> c.held]
  /\ UNCHANGED <<now, files, plugins, e2e_tests, session_results, clock, columns, test_running>>

\* QADatabase.cleanup_old_results(days); stuck are the files on disk whose
\* os.remove fails.
CleanupOldResults ==
  /\ ret = Idle
  /\ \E days \in 0..MaxTime, fault \in {"none", "query", "commit"}, stuck \in SUBSET files :
       LET r == cleanup_old_results(rows, files, now, days, fault, stuck)
           c == Query(r.raised, r.deleted)
       IN /\ rows' = r.rows
          /\ files' = r.files
          /\ ret' = [op |-> "cleanup_old_results", days |-> days, raised |-> c.exc # Null,
                     deleted |-> c.val, filesBefore |-> files, removeFailed |-> r.failed,
                     sessions |-> c.open, held |-> c.held]
  /\ UNCHANGED <<now, plugins, e2e_tests, session_results, clock, columns, test_running>>

\* A report writer saves an artifact (reports.py:57, :84).
SaveReport ==
  /\ ret = Idle
  /\ \E filepath \in ReportPaths :
       /\ filepath \notin files
       /\ files' = files \cup {filepath}
  /\ UNCHANGED <<rows, now, plugins, e2e_tests, ret, session_results, clock, columns, test_running>>

\* A day passes between two operations.
Tick ==
  /\ ret = Idle
  /\ now < MaxTime
  /\ now' = now + 1
  /\ UNCHANGED <<rows, files, plugins, e2e_tests, ret, session_results, clock, columns, test_running>>

\* The dispatcher over its store.
Next == RunTests \/ ClearResults \/ GetStatistics \/ ReturnToCaller

Spec == Init /\ [][Next]_vars

\* The store under direct use, with time passing and report files on disk.
NextStore ==
  \/ AddResult \/ ClearResults \/ GetStatistics \/ CleanupOldResults
  \/ SaveReport \/ Tick \/ ReturnToCaller

SpecStore == Init /\ [][NextStore]_vars

\* ---------------------------------------------------------- plugin loading
\* The names a configuration gives its plugins, in the order of the mapping.
PluginNames == <<"custom", "extra", "third", "fourth", "fifth">>

\* The references config['plugins'] can hold: the shipped plugin, a name
\* without a dot, a module that does not exist, a class the module does not
\* have, the abstract base class, and a class without a run method.
References ==
  {"qa_plugin.core.CustomPlugin", "CustomPlugin", "qa_plugin.missing.CustomPlugin",
   "qa_plugin.core.MissingPlugin", "qa_plugin.core.BasePlugin",
   "qa_plugin.database.QADatabase"}

\* rsplit('.', 1) yields two parts.
HasDot(ref) == ref # "CustomPlugin"
\* importlib.import_module finds the module.
ModuleExists(ref) == ref # "qa_plugin.missing.CustomPlugin"
\* getattr finds the class in the module.
ClassExists(ref) == ref # "qa_plugin.core.MissingPlugin"
\* plugin_class() returns an instance: an ABC with an abstract method does not.
Instantiable(ref) == ref # "qa_plugin.core.BasePlugin"
\* The instance has the run(config) method of BasePlugin.
HasRun(ref) == ref = "qa_plugin.core.CustomPlugin"

UnpackError == <<"not enough values to unpack (expected 2, got 1)">>
AbstractError == <<"Can't instantiate abstract class">>

RECURSIVE LoadEntries(_, _, _, _)
\* The for loop of load_plugins from entry i on: loaded holds the
\* <<name, reference>> pairs instantiated so far, warned the names whose
\* ImportError or AttributeError was caught.
LoadEntries(entries, i, loaded, warned) ==
  IF i > Len(entries) THEN [exc |-> Null, plugins |-> loaded, warned |-> warned]
  ELSE LET name == entries[i][1]
           plugin_path == entries[i][2]
       IN IF ~HasDot(plugin_path)
            THEN [exc |-> UnpackError, plugins |-> {}, warned |-> warned]
          ELSE IF ~ModuleExists(plugin_path) \/ ~ClassExists(plugin_path)
            THEN LoadEntries(entries, i + 1, loaded, warned \cup {name})
          ELSE IF ~Instantiable(plugin_path)
            THEN [exc |-> AbstractError, plugins |-> {}, warned |-> warned]
          ELSE LoadEntries(entries, i + 1, loaded \cup {entries[i]}, warned)

load_plugins(entries) == LoadEntries(entries, 1, {}, {})

\* The plugins mappings of a configuration: up to MaxPlugins entries.
PluginConfigs ==
  UNION {[1..n -> References] : n \in 0..MaxPlugins}

\* QACore.__init__ loads the plugins of its configuration; when load_plugins
\* raises, construction fails and no dispatcher exists.
LoadPlugins ==
  /\ ret = Idle
  /\ \E refs \in PluginConfigs :
       LET entries == [i \in DOMAIN refs |-> <<PluginNames[i], refs[i]>>]
           r == load_plugins(entries)
       IN /\ plugins' = {e[1] : e \in r.plugins}
          /\ ret' = [op |-> "load_plugins", config |-> entries,
                     raised |-> r.exc # Null, exc |-> r.exc,
                     loaded |-> r.plugins, warned |-> r.warned]
  /\ UNCHANGED <<rows, now, files, e2e_tests, session_results, clock, columns, test_running>>

NextPlugins == LoadPlugins \/ ReturnToCaller

SpecPlugins == Init /\ [][NextPlugins]_vars

\* ------------------------------------------------------------ store queries
\* limit=None of get_results.
NoLimit == -1

Range(s) == {s[i] : i \in DOMAIN s}

Smaller(a, b) == IF a < b THEN a ELSE b

\* order_by(TestResult.timestamp.desc()): the rows of S, newest first.  The
\* query names no second sort key, so SQLite may return rows with equal
\* timestamps in any order: all such orders.
OrderByTimestampDesc(S) ==
  {s \in [1..Cardinality(S) -> S] :
     \A i, j \in DOMAIN s : i < j => s[i] # s[j] /\ s[i].timestamp >= s[j].timestamp}

\* "if limit: query = query.limit(limit)": None and 0 apply no limit.
Limit(s, limit) ==
  IF limit # NoLimit /\ limit # 0 THEN SubSeq(s, 1, Smaller(limit, Len(s))) ELSE s

get_results(rs, limit) == {Limit(s, limit) : s \in OrderByTimestampDesc(Range(rs))}

get_results_by_type(rs, test_type) ==
  OrderByTimestampDesc({r \in Range(rs) : r.test_type = test_type})

get_results_by_status(rs, status) ==
  OrderByTimestampDesc({r \in Range(rs) : r.status = status})

get_results_by_date_range(rs, start_date, end_date) ==
  OrderByTimestampDesc({r \in Range(rs) : r.timestamp >= start_date /\ r.timestamp <= end_date})

\* The values a finished test is recorded with.
RecordedTypes == {"unit", "e2e"}
RecordedStatuses == {"pass", "fail"}

\* QADatabase.add_result as a finished test is recorded: any of the recorded
\* types and statuses, no report.
RecordResult ==
  /\ ret = Idle
  /\ Len(rows) < MaxRows
  /\ \E test_type \in RecordedTypes, status \in RecordedStatuses, faults \in SUBSET {1} :
       LET c == add_result(Context(rows, now, faults), test_type, "smoke", status, 0,
                           Null, None)
       IN /\ rows' = c.rows
          /\ ret' = [op |-> "add_result", raised |-> c.exc # Null, before |-> Len(rows),
                     sessions |-> c.open, held |-> c.held]
  /\ UNCHANGED <<now, files, plugins, e2e_tests, session_results, clock, columns, test_running>>

\* What a query hands back: the list, or the exception it re-raises.
Answer(op, args, fault, value) ==
  LET c == Query(fault, value)
  IN [op |-> op, args |-> args, raised |-> c.exc # Null, value |-> c.val,
      sessions |-> c.open, held |-> c.held]

\* QADatabase.get_results(limit).
GetResults ==
  /\ ret = Idle
  /\ Len(rows) <= MaxRows
  /\ \E limit \in {NoLimit} \cup (0..MaxRows), fault \in BOOLEAN :
       \E value \in get_results(rows, limit) :
         ret' = Answer("get_results", [limit |-> limit], fault, value)
  /\ UNCHANGED <<rows, now, files, plugins, e2e_tests, session_results, clock, columns, test_running>>

\* QADatabase.get_results_by_type(test_type).
GetResultsByType ==
  /\ ret = Idle
  /\ Len(rows) <= MaxRows
  /\ \E test_type \in RecordedTypes, fault \in BOOLEAN :
       \E value \in get_results_by_type(rows, test_type) :
         ret' = Answer("get_results_by_type", [test_type |-> test_type], fault, value)
  /\ UNCHANGED <<rows, now, files, plugins, e2e_tests, session_results, clock, columns, test_running>>

\* QADatabase.get_results_by_status(status).
GetResultsByStatus ==
  /\ ret = Idle
  /\ Len(rows) <= MaxRows
  /\ \E status \in RecordedStatuses, fault \in BOOLEAN :
       \E value \in get_results_by_status(rows, status) :
         ret' = Answer("get_results_by_status", [status |-> status], fault, value)
  /\ UNCHANGED <<rows, now, files, plugins, e2e_tests, session_results, clock, columns, test_running>>

\* QADatabase.get_results_by_date_range(start_date, end_date).
GetResultsByDateRange ==
  /\ ret = Idle
  /\ Len(rows) <= MaxRows
  /\ \E start_date \in 0..MaxTime, end_date \in 0..MaxTime, fault \in BOOLEAN :
       \E value \in get_results_by_date_range(rows, start_date, end_date) :
         ret' = Answer("get_results_by_date_range",
                       [start_date |-> start_date, end_date |-> end_date], fault, value)
  /\ UNCHANGED <<rows, now, files, plugins, e2e_tests, session_results, clock, columns, test_running>>

\* The store under queries, with time passing between the inserts.
NextQuery ==
  \/ RecordResult \/ Tick \/ GetResults \/ GetResultsByType \/ GetResultsByStatus
  \/ GetResultsByDateRange \/ ReturnToCaller

SpecQuery == Init /\ [][NextQuery]_vars

\* ------------------------------------------------------- dashboard listing
\* update_results_state of the dashboard: the full listing replaces the one
\* kept in the session; an exception is shown and leaves the session as it
\* was.
UpdateResultsState ==
  /\ ret = Idle
  /\ \E fault \in BOOLEAN :
       \E results \in get_results(rows, NoLimit) :
         /\ session_results' = IF fault THEN session_results ELSE results
         /\ ret' = [op |-> "update_results_state", failed |-> fault,
                    before |-> session_results]
  /\ UNCHANGED <<rows, now, files, plugins, e2e_tests, clock, columns, test_running>>

\* The store under inserts and resets, listed by the dashboard in between.
NextIds == RecordResult \/ ClearResults \/ UpdateResultsState \/ ReturnToCaller

SpecIds == Init /\ [][NextIds]_vars

\* ----------------------------------------------------------- report writers
\* The clock ticks TicksPerSecond times a second.
TicksPerSecond == 2

\* None in the mapping save_report returns.
NonePath == <<>>

KeyError == <<"KeyError: 'status'">>
OpenError == <<"Permission denied">>

\* datetime.now().strftime('%Y%m%d_%H%M%S'): the clock cut to whole seconds.
strftime(t) == t \div TicksPerSecond

\* os.path.join(output_dir, f"{test_type}_{test_name}_{stamp}{ext}").
Filepath(test_result, t, ext) ==
  <<"reports/", test_result.test_type, "_", test_result.test_name, "_", strftime(t), ext>>

\* opens: whether open(filepath, 'w') succeeds.
JSONReporter_save_report(fs, t, test_result, opens) ==
  LET filepath == Filepath(test_result, t, ".json")
  IN IF opens THEN [files |-> fs \cup {filepath}, exc |-> Null, path |-> filepath]
     ELSE [files |-> fs, exc |-> OpenError, path |-> NonePath]

\* _generate_html reads test_result["status"] before the file is opened.
HTMLReporter_save_report(fs, t, test_result, opens) ==
  LET filepath == Filepath(test_result, t, ".html")
  IN IF test_result.status = Absent THEN [files |-> fs, exc |-> KeyError, path |-> NonePath]
     ELSE IF opens THEN [files |-> fs \cup {filepath}, exc |-> Null, path |-> filepath]
     ELSE [files |-> fs, exc |-> OpenError, path |-> NonePath]

\* ReportManager._initialize_reporters: json, then html, each unless disabled.
ReporterNames == <<"json", "html">>

Reporters(reporting) == SelectSeq(ReporterNames, LAMBDA n : reporting[n])

\* One pass of the loop of ReportManager.save_report whose except clause is
\* missing: the reporter's exception leaves the loop.
SaveOne_uncaught(c, reporter_name, t, test_result, opens) ==
  LET r == IF reporter_name = "json"
             THEN JSONReporter_save_report(c.files, t, test_result, opens[reporter_name])
             ELSE HTMLReporter_save_report(c.files, t, test_result, opens[reporter_name])
  IN IF r.exc # Null
       THEN [c EXCEPT !.trace = Append(@, <<reporter_name, "raise">>), !.exc = r.exc]
       ELSE [c EXCEPT !.files = r.files,
                      !.trace = Append(@, <<reporter_name, "ok">>),
                      !.report_paths = @ @@ (reporter_name :> r.path)]

\* One pass of the loop of ReportManager.save_report: the reporter is called
\* and its path kept, or its exception logged and None kept.
SaveOne(c, reporter_name, t, test_result, opens) ==
  LET r == IF reporter_name = "json"
             THEN JSONReporter_save_report(c.files, t, test_result, opens[reporter_name])
             ELSE HTMLReporter_save_report(c.files, t, test_result, opens[reporter_name])
  IN [c EXCEPT !.files = r.files,
               !.trace = Append(@, <<reporter_name, IF r.exc # Null THEN "raise" ELSE "ok">>),
               !.report_paths = @ @@ (reporter_name :> r.path)]

RECURSIVE SaveEach(_, _, _, _, _, _)
\* The loop of ReportManager.save_report from reporter i on.
SaveEach(reporters, i, c, t, test_result, opens) ==
  IF i > Len(reporters) \/ c.exc # Null THEN c
  ELSE SaveEach(reporters, i + 1, SaveOne(c, reporters[i], t, test_result, opens),
                t, test_result, opens)

save_report(reporters, fs, t, test_result, opens) ==
  SaveEach(reporters, 1,
           [files |-> fs, trace |-> <<>>, report_paths |-> [n \in {} |-> NonePath],
            exc |-> Null],
           t, test_result, opens)

\* The test results handed to the report manager.
ReportedResults ==
  {[test_type |-> "unit", test_name |-> n, status |-> s] :
     n \in {"smoke", "login"}, s \in {"passed", Absent}}

\* ReportManager(config).save_report(test_result), under any reporting
\* configuration.
ManagerSaveReport ==
  /\ ret = Idle
  /\ \E reporting \in [Range(ReporterNames) -> BOOLEAN], test_result \in ReportedResults,
        opens \in [Range(ReporterNames) -> BOOLEAN] :
       LET reporters == Reporters(reporting)
           c == save_report(reporters, files, clock, test_result, opens)
       IN /\ files' = c.files
          /\ ret' = [op |-> "save_report", enabled |-> Range(reporters),
                     test_result |-> test_result, raised |-> c.exc # Null,
                     report_paths |-> c.report_paths, trace |-> c.trace,
                     filesBefore |-> files]
  /\ UNCHANGED <<rows, now, plugins, e2e_tests, session_results, clock, columns, test_running>>

\* The clock advances by one tick between two operations.
Elapse ==
  /\ ret = Idle
  /\ clock < MaxClock
  /\ clock' = clock + 1
  /\ UNCHANGED <<rows, now, files, plugins, e2e_tests, ret, session_results, columns, test_running>>

\* The report manager over the report directory.
NextReports == ManagerSaveReport \/ Elapse \/ ReturnToCaller

SpecReports == Init /\ [][NextReports]_vars

\* Every store operation that writes rows: insert, reset and cleanup, with
\* time passing in between.
NextRows == RecordResult \/ ClearResults \/ CleanupOldResults \/ Tick \/ ReturnToCaller

SpecRows == Init /\ [][NextRows]_vars

\* ------------------------------------------------- report writers, directly
\* The test names reports are written for: a plain name, a pytest node id,
\* a URL (the name of an e2e run), the empty name and a name of 101
\* characters.
ReportNames == {"smoke", "test_a.py::test_b", "https://x", "", "long_name"}

\* The characters of a test name.
Chars(test_name) ==
  CASE test_name = "smoke" -> <<"s", "m", "o", "k", "e">>
    [] test_name = "test_a.py::test_b" ->
         <<"t", "e", "s", "t", "_", "a", ".", "p", "y", ":", ":", "t", "e", "s", "t", "_", "b">>
    [] test_name = "https://x" -> <<"h", "t", "t", "p", "s", ":", "/", "/", "x">>
    [] test_name = "long_name" -> [i \in 1..101 |-> "x"]
    [] OTHER -> <<>>

\* f"{test_type}_{test_name}_{stamp}{ext}", character by character for the
\* name: the name goes into the file name as it is.
Filename(test_result, t, ext) ==
  <<test_result.test_type, "_">> \o Chars(test_result.test_name)
    \o <<"_", ToString(strftime(t)), ext>>

\* open(filepath, 'w') finds the directory of the file: a "/" in the file
\* name points into a directory that does not exist.
DirectoryExists(filename) == ~Contains(filename, "/")

\* HTMLReporter._generate_html, as far as the status decides the document:
\* the error-detail block and the style class of the status.
generate_html(test_result) ==
  [error_html |-> test_result.status = "failed" /\ test_result.error_message # AbsentT,
   status_class |-> IF test_result.status \in {"passed", "failed", "skipped"}
                      THEN test_result.status ELSE "",
   status |-> test_result.status]

\* The test results handed to a writer: the statuses the dispatcher writes
\* and the ones the writers know, with and without an error message.
WrittenResults ==
  {[test_type |-> "unit", test_name |-> n, status |-> s, error_message |-> e] :
     n \in ReportNames, s \in {"pass", "fail", "passed", "failed", "skipped"},
     e \in {AbsentT, TestOutput}}

\* JSONReporter().save_report(test_result) or HTMLReporter().save_report(
\* test_result), called on a writer directly.
WriterSaveReport ==
  /\ ret = Idle
  /\ Cardinality(files) < MaxReports
  /\ \E writer \in Range(ReporterNames), test_result \in WrittenResults, opens \in BOOLEAN :
       LET ext == IF writer = "json" THEN ".json" ELSE ".html"
           filename == Filename(test_result, clock, ext)
           found == opens /\ DirectoryExists(filename)
           r == IF writer = "json"
                  THEN JSONReporter_save_report(files, clock, test_result, found)
                  ELSE HTMLReporter_save_report(files, clock, test_result, found)
       IN /\ files' = r.files
          /\ ret' = [op |-> "writer.save_report", writer |-> writer,
                     test_result |-> test_result, raised |-> r.exc # Null,
                     path |-> r.path, filename |-> filename,
                     name_part |-> Chars(test_result.test_name),
                     html |-> generate_html(test_result)]
  /\ UNCHANGED <<rows, now, plugins, e2e_tests, session_results, clock, columns, test_running>>

\* The writers over the report directory.
NextWriters == WriterSaveReport \/ Elapse \/ ReturnToCaller

SpecWriters == Init /\ [][NextWriters]_vars

\* ------------------------------------------------- every store operation
\* The dispatcher and the operations of the store over one table.
NextSessions ==
  \/ RunTests \/ ClearResults \/ GetStatistics \/ CleanupOldResults
  \/ GetResults \/ GetResultsByType \/ GetResultsByStatus \/ GetResultsByDateRange
  \/ ReturnToCaller

SpecSessions == Init /\ [][NextSessions]_vars

\* ------------------------------------------------- constructing the store
\* _init_db that recreates the table whenever its columns differ from the
\* required ones.
init_db_strict(cols, rs, fault) ==
  IF fault = "connect" THEN [columns |-> cols, rows |-> rs, raised |-> TRUE]
  ELSE IF cols # {} /\ cols # required_columns
    THEN IF fault = "drop" THEN [columns |-> cols, rows |-> rs, raised |-> TRUE]
         ELSE [columns |-> required_columns, rows |-> <<>>, raised |-> FALSE]
  ELSE [columns |-> IF cols = {} THEN required_columns ELSE cols, rows |-> rs,
        raised |-> FALSE]

\* QADatabase._init_db over a store whose table has the columns cols and the
\* rows rs; fault: the step that fails ("connect", "drop") or "none".  The
\* table is dropped when a required column is missing; create_all creates
\* it when it does not exist and leaves an existing one alone.
init_db(cols, rs, fault) ==
  IF fault = "connect" THEN [columns |-> cols, rows |-> rs, raised |-> TRUE]
  ELSE IF cols # {} /\ ~(required_columns \subseteq cols)
    THEN IF fault = "drop" THEN [columns |-> cols, rows |-> rs, raised |-> TRUE]
         ELSE [columns |-> required_columns, rows |-> <<>>, raised |-> FALSE]
  ELSE [columns |-> IF cols = {} THEN required_columns ELSE cols, rows |-> rs,
        raised |-> FALSE]

\* The tables a store file can hold when QADatabase is constructed over it:
\* none, the current one, ones of earlier releases that lack columns, and
\* one with a column more.
Schemas ==
  {{}, required_columns, required_columns \ {"is_cloud"},
   required_columns \ {"report_path", "is_cloud"}, required_columns \cup {"notes"}}

\* The rows such a table can hold.
StoredRows(n) ==
  {rs \in [1..n -> [test_type : RecordedTypes, status : RecordedStatuses]] : TRUE}

ExistingRows ==
  UNION {{[i \in 1..n |-> TestResult(i, 0, f[i].test_type, "smoke", f[i].status, 0, Null, None)] :
            f \in StoredRows(n)} : n \in 0..MaxRows}

\* A store file as QADatabase finds it.
InitStore ==
  /\ columns \in Schemas
  /\ rows \in (IF columns = {} THEN {<<>>} ELSE ExistingRows)
  /\ now = 0
  /\ files = {}
  /\ plugins = {}
  /\ e2e_tests = <<>>
  /\ ret = Idle
  /\ session_results = <<>>
  /\ clock = 0
  /\ test_running = FALSE

\* QADatabase(db_path) is constructed over the store.
Construct ==
  /\ ret = Idle
  /\ \E fault \in {"none", "connect", "drop"} :
       LET r == init_db(columns, rows, fault)
       IN /\ columns' = r.columns
          /\ rows' = r.rows
          /\ ret' = [op |-> "QADatabase", raised |-> r.raised, before |-> rows,
                     columnsBefore |-> columns]
  /\ UNCHANGED <<now, files, plugins, e2e_tests, session_results, clock, test_running>>

NextSchema == Construct \/ ReturnToCaller

SpecSchema == InitStore /\ [][NextSchema]_vars

\* --------------------------------------------------------- dashboard runs
\* The state of one click on "Run Test": the dispatcher's call context c,
\* the exception that is propagating (exc), the steps taken (events), the
\* flag st.session_state["test_running"] with the values written to it
\* (flags), the rows the run had inserted when its run_tests calls ended
\* (persisted), the table when the report was attempted (stored) and
\* whether the handler returned early.
Click(c) ==
  [c |-> c, exc |-> "none", events |-> <<>>, test_running |-> TRUE, flags |-> <<TRUE>>,
   persisted |-> <<>>, stored |-> <<>>, returned |-> FALSE]

Event(d, what) == [d EXCEPT !.events = Append(@, what)]

\* The dashboard's reading of what run_tests handed back: the call raised,
\* or a result says fail (the first one, any one for e2e), and the
\* dashboard raises Exception; otherwise the run goes on.
Checked(d, c1, test_type) ==
  LET result == c1.val
      failed == IF test_type = "e2e"
                  THEN \E i \in DOMAIN result : result[i].status = "fail"
                  ELSE result # <<>> /\ result[1].status = "fail"
      d1 == Event([d EXCEPT !.c = c1], "run_tests")
  IN IF c1.exc # Null \/ failed THEN [d1 EXCEPT !.exc = "Exception"] ELSE d1

RECURSIVE RunSelected(_, _, _, _, _, _)
\* The loop goes on to the next test file unless the dashboard raised.
NextSelected(d, test_type, selected_tests, test_name, i, envs) ==
  IF d.exc # "none" THEN d
  ELSE RunSelected(d, test_type, selected_tests, test_name, i + 1, envs)

\* for i, test_file in enumerate(selected_tests): run_tests(test_type,
\* test_file=test_file[, test_name=test_name]), from position i on.
RunSelected(d, test_type, selected_tests, test_name, i, envs) ==
  IF i > Len(selected_tests) THEN d
  ELSE NextSelected(Checked(d, run_tests(d.c, {}, <<>>, test_type, selected_tests[i],
                                         test_name, None, envs[i]), test_type),
                    test_type, selected_tests, test_name, i, envs)

\* The body of the try up to the report: the branch of the test type.
RunPhase(d, test_type, selected_tests, url, test_name, loaded, envs) ==
  IF test_type \in {"unit", "sample"} THEN
    IF selected_tests = <<>> THEN [d EXCEPT !.exc = "ValueError"]
    ELSE RunSelected(d, test_type, selected_tests,
                     IF test_type = "sample" THEN test_name ELSE None, 1, envs)
  ELSE IF test_type = "e2e" THEN
    IF ~Truthy(url) THEN [d EXCEPT !.exc = "ValueError"]
    ELSE Checked(d, run_tests(d.c, {}, <<url>>, "e2e", None, None, url, envs[1]), "e2e")
  ELSE Checked(d, run_tests(d.c, loaded, <<>>, "custom", None, test_name, None, envs[1]),
               "custom")

\* allure_reporter.generate_report({"tests": results_dicts}): it writes the
\* report from the results it is given, or raises.
generate_report(d, report_ok) ==
  Event(d, IF report_ok THEN "generate_report" ELSE "generate_report raised")

\* The inner try: results = get_results(); return when there are none;
\* generate the report; any exception is shown and goes no further.
\* cleared: the table was emptied by another session in the meantime.
ReportPhase(d, report) ==
  LET results == IF report.cleared THEN <<>> ELSE d.c.rows
      d1 == Event([d EXCEPT !.c.rows = results, !.stored = results], "get_results")
  IN IF ~report.query_ok THEN d1
     ELSE IF results = <<>> THEN [d1 EXCEPT !.returned = TRUE]
     ELSE generate_report(d1, report.report_ok)

\* The report block is reached when no exception came out of the run.
ReportUnlessRaised(d, report) ==
  IF d.exc = "none" THEN ReportPhase(d, report) ELSE d

\* The run_tests calls of the click have ended: the rows they inserted
\* after the first before rows.
Ran(d, before) ==
  [d EXCEPT !.persisted = SubSeq(d.c.rows, before + 1, Len(d.c.rows))]

\* A finally block that is skipped when an exception propagates or the
\* handler returns from inside the try.
Finally_after_success(d) ==
  IF d.exc # "none" \/ d.returned THEN d
  ELSE [d EXCEPT !.test_running = FALSE, !.flags = Append(@, FALSE)]

\* finally: st.session_state["test_running"] = False
Finally(d) ==
  [d EXCEPT !.test_running = FALSE, !.flags = Append(@, FALSE)]

\* The handler with the report generated whether the run went through or
\* not.
show_run_tests_always_reporting(c, test_type, selected_tests, url, test_name, loaded, envs, report) ==
  Finally(ReportPhase(
    Ran(RunPhase(Click(c), test_type, selected_tests, url, test_name, loaded, envs),
        Len(c.rows)),
    report))

\* The handler of "Run Test" (app.py:312-492): the flag is set, the tests
\* are run, the report is generated when no exception came out of the run,
\* the ValueError and Exception handlers show the error, and the finally
\* block resets the flag.
show_run_tests(c, test_type, selected_tests, url, test_name, loaded, envs, report) ==
  Finally(ReportUnlessRaised(
    Ran(RunPhase(Click(c), test_type, selected_tests, url, test_name, loaded, envs),
        Len(c.rows)),
    report))

\* The test files the dashboard discovered, and the selections of them.
AvailableTests == <<"test_unit.py", "test_login.py", "test_cart.py">>
Selections == {SubSeq(AvailableTests, 1, n) : n \in 0..MaxSelected}

\* What the report generation meets: the query fails, the table was
\* emptied, the report is written, the report generator raises.
ReportOutcomes ==
  {[query_ok |-> FALSE, cleared |-> FALSE, report_ok |-> TRUE],
   [query_ok |-> TRUE, cleared |-> TRUE, report_ok |-> TRUE],
   [query_ok |-> TRUE, cleared |-> FALSE, report_ok |-> TRUE],
   [query_ok |-> TRUE, cleared |-> FALSE, report_ok |-> FALSE]}

\* The widgets of the page: selected_tests for unit and sample, the URL for
\* e2e, the test name for sample and custom.
Widgets ==
  {w \in [test_type : {"unit", "e2e", "sample", "custom"}, selected_tests : Selections,
          url : {"", KnownUrls[1]}, test_name : {"", "smoke"}] :
     /\ (w.test_type \notin {"unit", "sample"} => w.selected_tests = <<>>)
     /\ (w.test_type # "e2e" => w.url = "")
     /\ (w.test_type \notin {"sample", "custom"} => w.test_name = "")}

\* The backend outcomes of the run_tests calls of one click; for a test
\* file: it passes, it fails, it is missing.
ClickEnvs(w, loaded) ==
  IF w.test_type \in {"unit", "sample"}
    THEN [1..Len(w.selected_tests) ->
            {DefaultEnv, [DefaultEnv EXCEPT !.exit_code = 1],
             [DefaultEnv EXCEPT !.file_exists = FALSE]}]
    ELSE [1..1 -> Envs(w.test_type, None, w.url, loaded, <<>>)]

\* A click on "Run Test"; the button is disabled while test_running is set.
ShowRunTests ==
  /\ ret = Idle
  /\ ~test_running
  /\ Len(rows) < MaxBacklog
  /\ \E w \in Widgets, faults \in SUBSET (1..MaxFaults), report \in ReportOutcomes :
       \E loaded \in (IF w.test_type = "custom" THEN LoadedPlugins ELSE {{}}) :
         \E envs \in ClickEnvs(w, loaded) :
           LET d == show_run_tests(Context(rows, now, faults), w.test_type, w.selected_tests,
                                   w.url, w.test_name, loaded, envs, report)
           IN /\ rows' = d.c.rows
              /\ test_running' = d.test_running
              /\ plugins' = loaded
              /\ e2e_tests' = IF w.test_type = "e2e" THEN <<KnownUrls[1]>> ELSE <<>>
              /\ ret' = [op |-> "show_run_tests", test_type |-> w.test_type, exc |-> d.exc,
                         events |-> d.events, flags |-> d.flags, returned |-> d.returned,
                         persisted |-> d.persisted, stored |-> d.stored,
                         storeErrors |-> d.c.storeErrors]
  /\ UNCHANGED <<now, files, session_results, clock, columns>>

\* The dashboard's run page over the store.
NextDashboard == ShowRunTests \/ ClearResults \/ ReturnToCaller

SpecDashboard == Init /\ [][NextDashboard]_vars

\* =================================================================== claims
\* A run_tests call has just returned or raised, and every insert it
\* attempted was accepted by the store.
RanTests == ret.op = "run_tests" /\ ret.storeErrors = 0

\* The rows inserted by the call that has just ended.
Inserted == SubSeq(rows, ret.before + 1, Len(rows))

KnownTypes == {"unit", "e2e", "sample", "custom"}

Carries(text, msg) ==
  \E j \in 1..Len(text) : j + Len(msg) - 1 <= Len(text) /\ SubSeq(text, j, j + Len(msg) - 1) = msg

Raised(ev) == ev[3] = "raise"

MessageOf(ev) ==
  IF ev[1] = "pytest.main" THEN PytestError
  ELSE IF ev[1] = "chromium.launch" THEN LaunchError
  ELSE IF ev[1] = "page.goto" THEN GotoError
  ELSE IF ev[1] = "browser.close" THEN CloseError
  ELSE PluginError

Gotos == SelectSeq(ret.trace, LAMBDA ev : ev[1] = "page.goto")

\* C1: every run_tests call adds exactly one row to the store, or exactly N
\* rows when it is an e2e call over the N configured URLs, whether it
\* returned normally or through a caught exception.
C1_ExactlyOneRecord ==
  RanTests =>
    Len(rows) - ret.before =
      (IF ret.test_type = "e2e" /\ ~Truthy(ret.url) THEN Len(e2e_tests) ELSE 1)

\* C2: a stored row has status fail if and only if its error_message is
\* not null.
C2_FailIffErrorMessage ==
  \A i \in DOMAIN rows : (rows[i].status = "fail") <=> (rows[i].error_message # Null)

\* C3: when a backend call (pytest run, browser launch, navigation, plugin
\* run) raises, run_tests does not raise, the returned list holds a fail
\* result carrying that exception's message, and a fail row is recorded.
C3_BackendExceptionBecomesFailResult ==
  RanTests =>
    \A k \in DOMAIN ret.trace :
      (Raised(ret.trace[k]) /\ ret.trace[k][1] # "browser.close") =>
        /\ ~ret.raised
        /\ \E i \in DOMAIN ret.results :
             /\ ret.results[i].status = "fail"
             /\ Carries(ret.results[i].error, MessageOf(ret.trace[k]))
        /\ \E i \in DOMAIN Inserted : Inserted[i].status = "fail"

\* C4: a call with a test_type outside unit, e2e, sample, custom returns
\* exactly one fail result whose error names the category, invokes no
\* backend and persists exactly one row.
C4_UnknownCategoryFails ==
  (RanTests /\ ret.test_type \notin KnownTypes) =>
    /\ ~ret.raised
    /\ Len(ret.results) = 1
    /\ ret.results[1].status = "fail"
    /\ Contains(ret.results[1].error, ret.test_type)
    /\ ret.trace = <<>>
    /\ Len(Inserted) = 1

\* C5: an e2e call without url navigates each of the N configured URLs once
\* in list order, returns N results and persists N rows, the i-th pass when
\* the i-th navigation succeeded and fail when it raised, and does not raise.
C5_EachUrlTestedIndependently ==
  (RanTests /\ ret.test_type = "e2e" /\ ~Truthy(ret.url)) =>
    /\ ~ret.raised
    /\ [i \in DOMAIN Gotos |-> Gotos[i][2]] = e2e_tests
    /\ Len(ret.results) = Len(e2e_tests)
    /\ Len(Inserted) = Len(e2e_tests)
    /\ \A i \in DOMAIN e2e_tests :
         LET status == IF Gotos[i][3] = "ok" THEN "pass" ELSE "fail"
         IN /\ ret.results[i].status = status
            /\ ret.results[i].url = e2e_tests[i]
            /\ Inserted[i].status = status
            /\ Inserted[i].test_name = e2e_tests[i]

\* C6: with no "custom" plugin loaded, run_tests("custom") returns a single
\* fail result whose error is exactly "No custom plugin configured" and
\* persists exactly one row whose error_message is that text.
C6_MissingCustomPlugin ==
  (RanTests /\ ret.test_type = "custom" /\ "custom" \notin plugins) =>
    /\ ~ret.raised
    /\ Len(ret.results) = 1
    /\ ret.results[1].status = "fail"
    /\ ret.results[1].error = <<"No custom plugin configured">>
    /\ Len(Inserted) = 1
    /\ Inserted[1].error_message = <<"No custom plugin configured">>

\* C7: run_tests("unit", test_file=f) with f missing under the unit test
\* directory returns a fail result whose error contains "not found",
\* records the failure with that error message, and never runs pytest.
C7_MissingTestFile ==
  (RanTests /\ ret.test_type = "unit"
     /\ \E k \in DOMAIN ret.trace : ret.trace[k][1] = "os.path.exists" /\ ret.trace[k][3] = "False") =>
    /\ ~ret.raised
    /\ Len(ret.results) = 1
    /\ ret.results[1].status = "fail"
    /\ Contains(ret.results[1].error, "not found")
    /\ Len(Inserted) = 1
    /\ Inserted[1].status = "fail"
    /\ Inserted[1].error_message = ret.results[1].error
    /\ \A k \in DOMAIN ret.trace : ret.trace[k][1] # "pytest.main"

\* C8: get_statistics returns total equal to the number of stored rows,
\* passed + failed <= total, and pass_rate 0 when total is 0 and
\* passed / total * 100 otherwise.
C8_StatisticsCorrect ==
  (ret.op = "get_statistics" /\ ~ret.raised) =>
    LET st == ret.value
    IN /\ st.total = Len(rows)
       /\ st.passed + st.failed <= st.total
       /\ st.pass_rate.den > 0
       /\ st.total = 0 => st.pass_rate.num = 0
       /\ st.total > 0 => st.pass_rate.num * st.total = st.passed * 100 * st.pass_rate.den

C8_Witness ==
  /\ ret.op = "get_statistics" /\ ~ret.raised
  /\ ret.value.total = 2 /\ ret.value.passed = 1 /\ ret.value.failed = 0
  /\ ret.value.pass_rate = [num |-> 100, den |-> 2]

Cleaned == ret.op = "cleanup_old_results" /\ ~ret.raised

NoOldRowRemains == \A i \in DOMAIN rows : rows[i].timestamp >= now - ret.days

\* C9 as claimed: after cleanup_old_results(days) returns, no remaining row
\* is older than days, and every report file that a deleted row referenced
\* and that existed before the call no longer exists.
C9_CleanupRemovesEveryReport ==
  Cleaned =>
    /\ NoOldRowRemains
    /\ \A i \in DOMAIN ret.deleted :
         ret.deleted[i].report_path \in ret.filesBefore => ret.deleted[i].report_path \notin files

\* C9 amended: after cleanup_old_results(days) returns, no remaining row is
\* older than days, and every report file that a deleted row referenced,
\* that existed before the call and whose removal did not fail no longer
\* exists; a failed removal leaves that file and deletes the row all the same.
C9_CleanupRemovesReportsBestEffort ==
  Cleaned =>
    /\ NoOldRowRemains
    /\ \A i \in DOMAIN ret.deleted :
         LET report_path == ret.deleted[i].report_path
         IN report_path \in ret.filesBefore =>
              IF report_path \in ret.removeFailed THEN report_path \in files
              ELSE report_path \notin files

C9_Witness ==
  /\ Cleaned
  /\ Len(ret.deleted) = 2
  /\ \E i, j \in DOMAIN ret.deleted :
       /\ ret.deleted[i].report_path \in ret.filesBefore \ ret.removeFailed
       /\ ret.deleted[i].report_path \notin files
       /\ ret.deleted[j].report_path \in ret.removeFailed

\* C10: every stored row has status pass or fail, whatever the
\* categories of the run_tests calls and whatever a custom plugin returns.
C10_StatusPassOrFail ==
  \A i \in DOMAIN rows : rows[i].status \in {"pass", "fail"}

\* --------------------------------------------------------------------- C11
\* A reference load_plugins can turn into a plugin that honours the contract.
Loadable(ref) ==
  HasDot(ref) /\ ModuleExists(ref) /\ ClassExists(ref) /\ Instantiable(ref) /\ HasRun(ref)

\* C11: load_plugins never raises, and it loads exactly the entries whose
\* reference resolves to an instantiable class with a run method; every
\* other entry is omitted.
C11_LoadPluginsNeverFails ==
  ret.op = "load_plugins" =>
    /\ ~ret.raised
    /\ ret.loaded = {ret.config[i] : i \in {j \in DOMAIN ret.config : Loadable(ret.config[j][2])}}

\* --------------------------------------------------------------------- C12
\* A list-returning query has just returned its list.
Queried ==
  /\ ret.op \in {"get_results", "get_results_by_type", "get_results_by_status",
                 "get_results_by_date_range"}
  /\ ~ret.raised

\* C12: every list a query returns is sorted by timestamp descending, and
\* rows with equal timestamps appear in ascending id order.
C12_NewestFirstThenById ==
  Queried =>
    \A i, j \in DOMAIN ret.value :
      i < j => \/ ret.value[i].timestamp > ret.value[j].timestamp
               \/ /\ ret.value[i].timestamp = ret.value[j].timestamp
                  /\ ret.value[i].id < ret.value[j].id

\* The part of C12 the queries keep: newest first.
C12_NewestFirst ==
  Queried =>
    \A i, j \in DOMAIN ret.value :
      i < j => ret.value[i].timestamp >= ret.value[j].timestamp

\* --------------------------------------------------------------------- C13
\* The stored rows that satisfy the filter of the query just answered.
Matches ==
  {r \in Range(rows) :
     CASE ret.op = "get_results_by_type" -> r.test_type = ret.args.test_type
       [] ret.op = "get_results_by_status" -> r.status = ret.args.status
       [] ret.op = "get_results_by_date_range" ->
            r.timestamp >= ret.args.start_date /\ r.timestamp <= ret.args.end_date
       [] OTHER -> TRUE}

\* The query just answered was given a limit.
LimitGiven == ret.op = "get_results" /\ ret.args.limit # NoLimit

\* The list holds the newest n of the matching rows, each once.
NewestOfMatches(n) ==
  /\ Len(ret.value) = Smaller(n, Cardinality(Matches))
  /\ Cardinality(Range(ret.value)) = Len(ret.value)
  /\ Range(ret.value) \subseteq Matches
  /\ \A r \in Range(ret.value), s \in Matches \ Range(ret.value) : r.timestamp >= s.timestamp

\* C13: a query returns exactly the stored rows that satisfy its filter,
\* each once, cut to the newest limit rows when a limit is given; without
\* filter and limit it returns all rows.
C13_QueryReturnsExactlyTheMatches ==
  Queried =>
    IF LimitGiven THEN NewestOfMatches(ret.args.limit)
    ELSE NewestOfMatches(Cardinality(Matches))

\* C13 for every call but get_results(limit=0).
C13_ExceptLimitZero ==
  Queried /\ ~(LimitGiven /\ ret.args.limit = 0) => C13_QueryReturnsExactlyTheMatches

\* --------------------------------------------------------------------- C14
\* C14: after clear_results returns normally the store holds no rows
\* (get_results is empty and get_statistics().total is 0); after it raises,
\* every row that existed before the call is still present.
C14_ClearResultsAllOrNothing ==
  ret.op = "clear_results" =>
    IF ret.raised THEN rows = ret.before
    ELSE /\ rows = <<>>
         /\ get_results(rows, NoLimit) = {<<>>}
         /\ get_statistics(rows).total = 0

\* clear_results has returned normally from a store that held several rows.
C14_Witness ==
  ret.op = "clear_results" /\ ~ret.raised /\ Len(ret.before) >= 2

\* --------------------------------------------------------------------- C15
\* C15: no step changes a field of a row that is in the store before and
\* after it: a row identified by its id is inserted, kept as inserted, and
\* removed, nothing else.
C15_RowsImmutable ==
  [][\A i \in DOMAIN rows, j \in DOMAIN rows' :
       rows[i].id = rows'[j].id => rows[i] = rows'[j]]_vars

\* A row has survived a cleanup that deleted another row.
C15_Witness ==
  /\ ret.op = "cleanup_old_results" /\ ~ret.raised
  /\ Len(ret.deleted) >= 1
  /\ Len(rows) >= 1

\* --------------------------------------------------------------------- C16
\* C16: a row that a full listing shows and the listing before it did not
\* show was inserted in between, so its id is greater than every id the
\* earlier listing showed, whatever was deleted in between; and the ids of
\* one listing are pairwise distinct.
C16_IdsNeverReused ==
  ret.op = "update_results_state" /\ ~ret.failed =>
    /\ \A r \in Range(session_results) \ Range(ret.before), s \in Range(ret.before) :
         r.id > s.id
    /\ \A i, j \in DOMAIN session_results :
         session_results[i].id = session_results[j].id => i = j

\* The part of C16 the store keeps: the ids of the stored rows are pairwise
\* distinct and grow in insertion order.
C16_IdsUniqueAmongStoredRows ==
  \A i, j \in DOMAIN rows : i < j => rows[i].id < rows[j].id

\* --------------------------------------------------------------------- C17
\* run_tests("sample") was called without a test_file.
SampleWithoutFile == RanTests /\ ret.test_type = "sample" /\ ~Truthy(ret.test_file)

\* C17: run_tests("sample") without test_file calls no backend, returns
\* exactly one pass result named test_name, or "sample_test" when no name
\* is given, and inserts exactly one pass row with that name, duration 0
\* and no error_message.
C17_SampleWithoutFile ==
  SampleWithoutFile =>
    LET name == IF ret.test_name # None THEN ret.test_name ELSE "sample_test"
    IN /\ ~ret.raised
       /\ ret.trace = <<>>
       /\ Len(ret.results) = 1
       /\ ret.results[1].type = "sample"
       /\ ret.results[1].status = "pass"
       /\ ret.results[1].name = name
       /\ Len(Inserted) = 1
       /\ Inserted[1].test_type = "sample"
       /\ Inserted[1].status = "pass"
       /\ Inserted[1].test_name = name
       /\ Inserted[1].duration = 0
       /\ Inserted[1].error_message = Null

\* The sample smoke check has run under a name of the caller's.
C17_Witness ==
  SampleWithoutFile /\ ret.test_name = "smoke" /\ Len(Inserted) = 1

\* --------------------------------------------------------------------- C18
\* The pytest.main calls of the run_tests call that returned an exit code.
PytestExits ==
  SelectSeq(ret.trace, LAMBDA ev : ev[1] = "pytest.main" /\ ev[3] # "raise")

\* C18: when pytest.main returns an exit code, the one result returned and
\* the one row inserted have status pass if the code is 0 and fail if it is
\* not; the row's error_message is the captured output when failing and
\* NULL when passing.
C18_ExitCodeDecidesStatus ==
  RanTests /\ PytestExits # <<>> =>
    LET status == IF PytestExits[1][3] = "exit 0" THEN "pass" ELSE "fail"
    IN /\ Len(PytestExits) = 1
       /\ ~ret.raised
       /\ Len(ret.results) = 1
       /\ ret.results[1].status = status
       /\ Len(Inserted) = 1
       /\ Inserted[1].status = status
       /\ Inserted[1].error_message = IF status = "pass" THEN Null ELSE TestOutput

\* pytest has ended with exit code 5 (no tests collected) and the run is
\* recorded as failed.
C18_Witness ==
  /\ RanTests
  /\ PytestExits # <<>>
  /\ PytestExits[1][3] = "exit 5"
  /\ Len(Inserted) = 1
  /\ Inserted[1].status = "fail"

\* --------------------------------------------------------------------- C19
\* ReportManager.save_report has just ended.
SavedReports == ret.op = "save_report"

\* C19: save_report does not raise; every enabled reporter is called once,
\* whatever the reporters before it did; the mapping returned has exactly
\* the enabled reporters as keys, with the path of the written file for a
\* reporter that succeeded and None for one that raised.
C19_ReportersIndependent ==
  SavedReports =>
    /\ ~ret.raised
    /\ DOMAIN ret.report_paths = ret.enabled
    /\ Len(ret.trace) = Cardinality(ret.enabled)
    /\ {ev[1] : ev \in Range(ret.trace)} = ret.enabled
    /\ \A ev \in Range(ret.trace) :
         IF ev[2] = "raise" THEN ret.report_paths[ev[1]] = NonePath
         ELSE /\ ret.report_paths[ev[1]] # NonePath
              /\ ret.report_paths[ev[1]] \in files

\* The first reporter has raised and the second has written its file.
C19_Witness ==
  /\ SavedReports
  /\ ret.enabled = {"json", "html"}
  /\ ret.trace = <<<<"json", "raise">>, <<"html", "ok">>>>
  /\ ret.report_paths["html"] \in files

\* --------------------------------------------------------------------- C20
\* C20: a path save_report returns names a file that did not exist before
\* the call: no earlier call of the same writer for the same test_type and
\* test_name has produced it, also not within the same second.
C20_ReportPathsDistinct ==
  SavedReports =>
    \A n \in DOMAIN ret.report_paths :
      ret.report_paths[n] # NonePath => ret.report_paths[n] \notin ret.filesBefore

\* --------------------------------------------------------------------- C21
\* A writer has saved a report.
Written == ret.op = "writer.save_report" /\ ~ret.raised

\* The characters that are illegal in a file name.
IllegalChars == {"<", ">", ":", "\"", "/", "\\", "|", "?", "*"}

\* C21: the part of the saved file's name that comes from test_name holds
\* none of the characters <>:"/\|?*, no two placeholders in a row, is not
\* empty and is at most 100 characters long.
C21_FilenameSanitized ==
  Written =>
    /\ \A i \in DOMAIN ret.name_part : ret.name_part[i] \notin IllegalChars
    /\ \A i \in DOMAIN ret.name_part :
         i > 1 => ~(ret.name_part[i - 1] = "_" /\ ret.name_part[i] = "_")
    /\ ret.name_part # <<>>
    /\ Len(ret.name_part) <= 100

\* --------------------------------------------------------------------- C27
\* The HTML writer has saved the report of a run.
WrittenHtml == Written /\ ret.writer = "html"

\* C27: the HTML report of a run whose status is fail and that has an error
\* message holds the error-detail block and a style class for the status;
\* the report of a run whose status is pass holds no error-detail block.
C27_HtmlShowsFailure ==
  WrittenHtml =>
    /\ (ret.test_result.status = "fail" /\ ret.test_result.error_message # AbsentT)
         => (ret.html.error_html /\ ret.html.status_class # "")
    /\ ret.test_result.status = "pass" => ~ret.html.error_html

\* --------------------------------------------------------------------- C24
\* C24: when an insert into the store fails during run_tests, run_tests
\* raises the store error to its caller: it returns no result in its place
\* and records no row of status fail for the run.
C24_StoreErrorReraised ==
  (ret.op = "run_tests" /\ ret.storeErrors > 0) =>
    /\ ret.raised
    /\ ret.exc = StoreError
    /\ \A i \in DOMAIN Inserted : Inserted[i].status # "fail"

\* --------------------------------------------------------------------- C26
\* C26: over rows of status pass and fail, as the dispatcher writes them,
\* get_statistics counts the passing rows as passed and the failing rows as
\* failed; over one passing row passed is 1 and pass_rate is 100.
C26_StatisticsCountDispatcherRows ==
  (ret.op = "get_statistics" /\ ~ret.raised
     /\ \A i \in DOMAIN rows : rows[i].status \in {"pass", "fail"}) =>
    /\ ret.value.passed = Count(rows, "pass")
    /\ ret.value.failed = Count(rows, "fail")
    /\ (Len(rows) = 1 /\ rows[1].status = "pass") =>
         (ret.value.passed = 1 /\ ret.value.pass_rate = [num |-> 100, den |-> 1])

\* --------------------------------------------------------------------- C28
\* C28: every row inserted by run_tests(test_type) for a known category
\* carries that category as its test_type, and so does the type of every
\* result returned.
C28_RowsCarryRequestedType ==
  (RanTests /\ ret.test_type \in KnownTypes) =>
    /\ \A i \in DOMAIN Inserted : Inserted[i].test_type = ret.test_type
    /\ \A i \in DOMAIN ret.results : ret.results[i].type = ret.test_type

\* --------------------------------------------------------------------- C29
\* C29: run_tests returns as many results as it inserted rows, and the
\* status of the i-th result is the status of the i-th inserted row.
C29_ResultsMatchRows ==
  (RanTests /\ ~ret.raised) =>
    /\ Len(ret.results) = Len(Inserted)
    /\ \A i \in DOMAIN ret.results :
         i <= Len(Inserted) => ret.results[i].status = Inserted[i].status

\* --------------------------------------------------------------------- C23
StoreOperations ==
  {"add_result", "get_results", "get_results_by_type", "get_results_by_status",
   "get_results_by_date_range", "get_statistics", "clear_results", "cleanup_old_results"}

\* C23: when a store operation or a run_tests call ends, by return or by
\* exception, no session of the store is open, and no backend call was made
\* while one was open.
C23_SessionsReleased ==
  ret.op \in StoreOperations \cup {"run_tests"} => (ret.sessions = 0 /\ ~ret.held)

\* An e2e run whose first insert failed, followed by a further navigation.
C23_Witness ==
  /\ ret.op = "run_tests" /\ ret.test_type = "e2e"
  /\ ret.storeErrors > 0
  /\ Len(Gotos) = 2
  /\ ret.sessions = 0

\* --------------------------------------------------------------------- C25
Constructed == ret.op = "QADatabase" /\ ~ret.raised

ColumnMissing == ret.columnsBefore # {} /\ ~(required_columns \subseteq ret.columnsBefore)

\* C25: constructing QADatabase over an existing store empties and
\* recreates the test_results table exactly when a required column is
\* missing from it; otherwise the table keeps its columns and every row.
C25_RecreatedIffColumnMissing ==
  Constructed =>
    IF ColumnMissing
      THEN rows = <<>> /\ columns = required_columns
      ELSE rows = ret.before /\ (ret.columnsBefore # {} => columns = ret.columnsBefore)

\* A table that held rows and lacked a required column was recreated.
C25_Witness ==
  /\ Constructed
  /\ ret.before # <<>>
  /\ ColumnMissing
  /\ rows = <<>>

\* --------------------------------------------------------------------- C30
Clicked == ret.op = "show_run_tests"

Reports == {i \in DOMAIN ret.events : ret.events[i] \in {"generate_report", "generate_report raised"}}

\* C22: the dashboard attempts the report of a run only after every
\* run_tests call of the run has ended and has persisted a row; the rows
\* are then what they were when the report was attempted, whether the
\* report was written or its generation raised, and the failure goes no
\* further.
C22_ReportAfterPersisting ==
  (Clicked /\ Reports # {}) =>
    /\ ret.persisted # <<>>
    /\ \A i \in Reports : \A j \in DOMAIN ret.events : ret.events[j] = "run_tests" => j < i
    /\ rows = ret.stored
    /\ SubSeq(rows, Len(rows) - Len(ret.persisted) + 1, Len(rows)) = ret.persisted
    /\ ret.exc = "none"

\* The report generation raised after a run of two test files that had
\* persisted their rows.
C22_Witness ==
  /\ Clicked
  /\ \E i \in Reports : ret.events[i] = "generate_report raised"
  /\ Len(ret.persisted) = 2
  /\ rows = ret.stored

====
